---- MODULE Spec2Model ----
(***************************************************************************)
(* Race Control HQ (op.py): forecast window filter, rally summary, circuit *)
(* tire call, GPX route sampler, and the two Streamlit handlers (circuit   *)
(* scan, rally stage profiler).                                            *)
(*                                                                         *)
(* Units.  Distances are integers in 1/Scale km along one meridian,        *)
(* precipitation is in hundredths of a mm, temperature in hundredths of a  *)
(* degree, wind in tenths of a km/h, time in forecast slots of 15 minutes  *)
(* (the minutely_15 interval).                                             *)
(* Arithmetic is exact: binary floating point rounding is not modelled.    *)
(***************************************************************************)
EXTENDS Integers, Sequences, FiniteSets

VARIABLES
    \* parse_gpx_route called as a function
    points, step_km, selected, spc,
    \* get_weather_data called as a function
    fetch, now, wmode, df, ret, wpc,
    \* get_strategy called as a function
    row, verdict, gpc,
    \* the Streamlit script
    pc, waypoints, i, results, calls, advice, data, strategy_df, metrics

vars == <<points, step_km, selected, spc,
          fetch, now, wmode, df, ret, wpc,
          row, verdict, gpc,
          pc, waypoints, i, results, calls, advice, data, strategy_df, metrics>>

samplerVars == <<points, step_km, selected, spc>>
weatherVars == <<fetch, now, wmode, df, ret, wpc>>
strategyVars == <<row, verdict, gpc>>
appVars == <<pc, waypoints, i, results, calls, advice, data, strategy_df, metrics>>

-----------------------------------------------------------------------------
(* Bounds of the model *)

MaxPoints == 3
MaxCoordIdx == 4
MaxStep == 9
MaxUploadPoints == 2
MaxSamples == 2
MaxPrecip == 51
MaxRowTime == 3

(* Resolution of the model's numbers *)

Scale == 2
CoordStep == 3

Abs(x) == IF x < 0 THEN -x ELSE x

Coords == {CoordStep * k : k \in 0..MaxCoordIdx}

RoutePoints == [latitude : Coords, longitude : {0}]

SeqsUpTo(S, n) == UNION {[1..k -> S] : k \in 0..n}

Routes == SeqsUpTo(RoutePoints, MaxPoints)

Steps == (-1)..MaxStep

-----------------------------------------------------------------------------
(* parse_gpx_route *)

\* geodesic(a, b).kilometers for two points of one meridian, in 1/Scale km
geodesic(a, b) == Abs(a.latitude - b.latitude)

\* int(x) of a non-negative distance held in 1/Scale km
int(x) == x \div Scale

START == <<"START">>
FINISH == <<"FINISH">>
KM(n) == <<"KM", n>>

Waypoint(name, p) == [name |-> name, lat |-> p.latitude, lon |-> p.longitude]

\* the state before the loop: selected, last, total_dist
SampleInit(pts) ==
    [selected |-> <<Waypoint(START, pts[1])>>, last |-> pts[1], total_dist |-> 0]

\* a plausible slip: strict comparison
SampleStepStrict(st, p, step) ==
    LET dist == geodesic(st.last, p) IN
    IF dist > step
    THEN [selected |-> Append(st.selected,
                              Waypoint(KM(int(st.total_dist + dist)), p)),
          last |-> p,
          total_dist |-> st.total_dist + dist]
    ELSE st

\* one iteration of "for p in points"
SampleStep(st, p, step) ==
    LET dist == geodesic(st.last, p) IN
    IF dist >= step
    THEN [selected |-> Append(st.selected,
                              Waypoint(KM(int(st.total_dist + dist)), p)),
          last |-> p,
          total_dist |-> st.total_dist + dist]
    ELSE st

RECURSIVE SampleLoop(_, _, _)
\* the loop over points[1..k], the first point included
SampleLoop(pts, k, step) ==
    IF k = 0 THEN SampleInit(pts)
    ELSE SampleStep(SampleLoop(pts, k - 1, step), pts[k], step)

\* a plausible slip: FINISH dropped when it repeats the last emitted waypoint
parse_gpx_route_dedup(pts, step) ==
    IF Len(pts) = 0 THEN <<>>
    ELSE LET sel == SampleLoop(pts, Len(pts), step).selected
             end == pts[Len(pts)]
             prev == sel[Len(sel)]
         IN IF prev.lat = end.latitude /\ prev.lon = end.longitude
            THEN sel
            ELSE Append(sel, Waypoint(FINISH, end))

\* a plausible slip: the empty route still gets its two end markers
parse_gpx_route_noguard(pts, step) ==
    LET origin == [latitude |-> 0, longitude |-> 0] IN
    IF Len(pts) = 0
    THEN <<Waypoint(START, origin), Waypoint(FINISH, origin)>>
    ELSE Append(SampleLoop(pts, Len(pts), step).selected,
                Waypoint(FINISH, pts[Len(pts)]))

parse_gpx_route(pts, step) ==
    IF Len(pts) = 0 THEN <<>>
    ELSE Append(SampleLoop(pts, Len(pts), step).selected,
                Waypoint(FINISH, pts[Len(pts)]))

\* the default of the step_km parameter, 4 km
DefaultStepKm == 4 * Scale

-----------------------------------------------------------------------------
(* Specification of the route sampler called on its own *)

InitSampler ==
    /\ points \in Routes
    /\ step_km \in Steps
    /\ selected = <<>>
    /\ spc = "call"
    /\ fetch = [ok |-> FALSE, start |-> 0, samples |-> <<>>]
    /\ now = 0
    /\ wmode = "circuit"
    /\ df = <<>>
    /\ ret = [kind |-> "None"]
    /\ wpc = "off"
    /\ row = [time |-> 0, temp |-> 0, precip |-> 0, wind |-> 0]
    /\ verdict = <<>>
    /\ gpc = "off"
    /\ pc = "off"
    /\ waypoints = <<>>
    /\ i = 0
    /\ results = <<>>
    /\ calls = <<>>
    /\ advice = "none"
    /\ data = [kind |-> "None"]
    /\ strategy_df = <<>>
    /\ metrics = <<>>

SampleRoute ==
    /\ spc = "call"
    /\ selected' = parse_gpx_route(points, step_km)
    /\ spc' = "returned"
    /\ UNCHANGED <<points, step_km>>
    /\ UNCHANGED <<weatherVars, strategyVars, appVars>>

NextSampler == SampleRoute

SpecSampler == InitSampler /\ [][NextSampler]_vars

-----------------------------------------------------------------------------
(* Properties of the route sampler *)

Returned == spc = "returned"

At(w, p) == w.lat = p.latitude /\ w.lon = p.longitude

\* C1: for a non-empty route and step_km > 0 the result has at least two
\* waypoints, the first is START at the first point and the last is FINISH
\* at the last point, whatever was emitted before it.
C1_StartFinish ==
    (Returned /\ Len(points) > 0 /\ step_km > 0) =>
        /\ Len(selected) >= 2
        /\ selected[1].name = START
        /\ At(selected[1], points[1])
        /\ selected[Len(selected)].name = FINISH
        /\ At(selected[Len(selected)], points[Len(points)])

\* a single-point route came back as START and FINISH at the same place
C1_Witness ==
    /\ Returned
    /\ Len(points) = 1
    /\ step_km > 0
    /\ Len(selected) = 2
    /\ selected[1].name = START
    /\ selected[2].name = FINISH
    /\ selected[1].lat = selected[2].lat

\* the anchor in force when point k is visited, given the set E of indices
\* that got a KM waypoint: the latest of them before k, else the first point
AnchorIdx(E, k) ==
    LET before == {e \in E : e < k} IN
    IF before = {} THEN 1
    ELSE CHOOSE e \in before : \A x \in before : x <= e

Leg(E, k) == geodesic(points[AnchorIdx(E, k)], points[k])

RECURSIVE CumTo(_, _)
CumTo(E, k) ==
    IF k = 0 THEN 0
    ELSE CumTo(E, k - 1) + (IF k \in E THEN Leg(E, k) ELSE 0)

Rank(E, e) == Cardinality({x \in E : x <= e})

KmCount == Len(selected) - 2

\* C2: a point gets a KM waypoint exactly when it is at least step_km from
\* the anchor in force; the label is the floor of the distance accumulated
\* over the anchor-to-point legs; KM waypoints come in route order with
\* non-decreasing numbers, each at least step_km from the waypoint emitted
\* before it; and 0, 3, 6 km with step 4 km gives START, KM 6, FINISH.
C2_KmWaypoints ==
    (Returned /\ Len(points) > 0) =>
        /\ \E E \in SUBSET (1..Len(points)) :
              /\ Cardinality(E) = KmCount
              /\ \A k \in 1..Len(points) : (k \in E) <=> (Leg(E, k) >= step_km)
              /\ \A e \in E :
                    selected[1 + Rank(E, e)] =
                        Waypoint(KM(CumTo(E, e) \div Scale), points[e])
        /\ \A j \in 2..(Len(selected) - 1) :
              /\ selected[j].name[1] = "KM"
              /\ Abs(selected[j].lat - selected[j - 1].lat) >= step_km
              /\ j > 2 => selected[j].name[2] >= selected[j - 1].name[2]
        /\ ( /\ Len(points) = 3
             /\ points[1].latitude = 0
             /\ points[2].latitude = 3 * Scale
             /\ points[3].latitude = 6 * Scale
             /\ step_km = 4 * Scale )
           => selected = << [name |-> START, lat |-> 0, lon |-> 0],
                            [name |-> KM(6), lat |-> 6 * Scale, lon |-> 0],
                            [name |-> FINISH, lat |-> 6 * Scale, lon |-> 0] >>

\* the 0, 3, 6 km route sampled every 4 km
C2_Witness ==
    /\ Returned
    /\ Len(points) = 3
    /\ points[1].latitude = 0
    /\ points[2].latitude = 3 * Scale
    /\ points[3].latitude = 6 * Scale
    /\ step_km = 4 * Scale
    /\ Len(selected) = 3
    /\ selected[2].name = KM(6)

\* C4: a call with step_km <= 0 is rejected and returns no waypoint sequence;
\* stated on the routes that have points, where a sequence returned for such
\* a step holds a KM waypoint for every point, the first included.
C4_RejectsBadStep == (step_km <= 0 /\ Len(points) > 0) => ~Returned

\* C10: an empty route gives an empty sequence, for every step_km.
C10_EmptyRoute == (Returned /\ Len(points) = 0) => selected = <<>>

\* the sampler returned from an empty route with a non-default step
C10_Witness == Returned /\ Len(points) = 0 /\ step_km # DefaultStepKm /\ Len(selected) = 0

-----------------------------------------------------------------------------
(* get_weather_data *)

\* the forecast interval: minutely_15 gives four slots an hour
SlotsPerHour == 4

\* hours = 3 if mode == "circuit" else 1
HoursCircuit == 3
HoursRally == 1

\* "WET" if precip max > 0.2, in hundredths of a mm
WetAbove == 20

\* pd.Timestamp.now(tz='UTC'), as a slot number (22:30)
Nows == {90}

PrecipVals == {0, 20, 21}
TempVals == {1525}
WindVals == {105}

Samples == [temp : TempVals, precip : PrecipVals, wind : WindVals]

\* what openmeteo.weather_api gives: an exception, or a series that starts at
\* slot start and has one sample per slot
hours(mode) == IF mode = "circuit" THEN HoursCircuit ELSE HoursRally

Modes == {"circuit", "rally"}

\* the series starts drawn: one slot before and exactly at each edge of each
\* mode's window, so that a series straddles every edge
Starts ==
    UNION {{n - 1, n} : n \in Nows} \cup
    UNION {{n + hours(m) * SlotsPerHour - 1, n + hours(m) * SlotsPerHour} :
              n \in Nows, m \in Modes}

Fetches ==
    {[ok |-> FALSE, start |-> 0, samples |-> <<>>]} \cup
    [ok : {TRUE}, start : Starts, samples : SeqsUpTo(Samples, MaxSamples)]

None == [kind |-> "None"]

\* a float: NaN, or the fraction num / den
NaN == [nan |-> TRUE, num |-> 0, den |-> 1]
Num(x) == [nan |-> FALSE, num |-> x, den |-> 1]

\* x > c for a float x: False for NaN
GT(x, c) == ~x.nan /\ x.num > c * x.den

\* pd.date_range(start, freq=Interval, periods=len(values)) and pd.DataFrame(data)
DataFrame(f) ==
    [k \in 1..Len(f.samples) |->
        [time |-> f.start + (k - 1),
         temp |-> f.samples[k].temp,
         precip |-> f.samples[k].precip,
         wind |-> f.samples[k].wind]]

\* a plausible slip: the upper bound is exclusive
WindowFilterOpen(frame, n, mode) ==
    SelectSeq(frame, LAMBDA r : r.time >= n /\ r.time < n + hours(mode) * SlotsPerHour)

\* df[(df['time'] >= now) & (df['time'] <= now + timedelta(hours=hours))]
WindowFilter(frame, n, mode) ==
    SelectSeq(frame, LAMBDA r : r.time >= n /\ r.time <= n + hours(mode) * SlotsPerHour)

RECURSIVE SeriesMax(_)
\* Series.max(): NaN for an empty series
SeriesMax(s) ==
    IF Len(s) = 0 THEN NaN
    ELSE LET rest == SeriesMax(Tail(s)) IN
         IF rest.nan \/ Head(s) >= rest.num THEN Num(Head(s)) ELSE rest

RECURSIVE SeriesSum(_)
SeriesSum(s) == IF Len(s) = 0 THEN 0 ELSE Head(s) + SeriesSum(Tail(s))

RECURSIVE GCD(_, _)
GCD(a, b) == IF b = 0 THEN a ELSE GCD(b, a % b)

\* the fraction num / den in lowest terms, den > 0
Frac(num, den) ==
    LET g == GCD(Abs(num), den) IN
    [nan |-> FALSE, num |-> num \div g, den |-> den \div g]

\* Series.mean(): NaN for an empty series
SeriesMean(s) ==
    IF Len(s) = 0 THEN NaN ELSE Frac(SeriesSum(s), Len(s))

Column(frame, c) == [k \in 1..Len(frame) |-> frame[k][c]]

\* a plausible slip: the comparison is not strict
RallySummaryAtLeast(frame) ==
    [kind |-> "summary",
     precip_max |-> SeriesMax(Column(frame, "precip")),
     temp |-> SeriesMean(Column(frame, "temp")),
     wind |-> SeriesMean(Column(frame, "wind")),
     risk |-> IF GT(SeriesMax(Column(frame, "precip")), WetAbove - 1)
              THEN "WET" ELSE "DRY"]

\* the dict returned in rally mode
RallySummary(frame) ==
    [kind |-> "summary",
     precip_max |-> SeriesMax(Column(frame, "precip")),
     temp |-> SeriesMean(Column(frame, "temp")),
     wind |-> SeriesMean(Column(frame, "wind")),
     risk |-> IF GT(SeriesMax(Column(frame, "precip")), WetAbove)
              THEN "WET" ELSE "DRY"]

\* the local df after the filter, for a fetch that did not raise
Window(f, n, mode) == WindowFilter(DataFrame(f), n, mode)

\* the value returned: None when the fetch raised.  Under st.cache_data a
\* call may instead return what an earlier call with the same arguments
\* returned, which is a value of this operator for that call's response.
get_weather_data(f, n, mode) ==
    IF ~f.ok THEN None
    ELSE IF mode = "rally" THEN RallySummary(Window(f, n, mode))
    ELSE [kind |-> "frame", df |-> Window(f, n, mode)]

-----------------------------------------------------------------------------
(* Specification of get_weather_data called on its own *)

InitWeather ==
    /\ points = <<>>
    /\ step_km = DefaultStepKm
    /\ selected = <<>>
    /\ spc = "off"
    /\ fetch \in Fetches
    /\ now \in Nows
    /\ wmode \in Modes
    /\ df = <<>>
    /\ ret = None
    /\ wpc = "call"
    /\ row = [time |-> 0, temp |-> 0, precip |-> 0, wind |-> 0]
    /\ verdict = <<>>
    /\ gpc = "off"
    /\ pc = "off"
    /\ waypoints = <<>>
    /\ i = 0
    /\ results = <<>>
    /\ calls = <<>>
    /\ advice = "none"
    /\ data = None
    /\ strategy_df = <<>>
    /\ metrics = <<>>

CallWeather ==
    /\ wpc = "call"
    /\ df' = IF fetch.ok THEN Window(fetch, now, wmode) ELSE <<>>
    /\ ret' = get_weather_data(fetch, now, wmode)
    /\ wpc' = "returned"
    /\ UNCHANGED <<fetch, now, wmode>>
    /\ UNCHANGED <<samplerVars, strategyVars, appVars>>

NextWeather == CallWeather

SpecWeather == InitWeather /\ [][NextWeather]_vars

-----------------------------------------------------------------------------
(* Properties of get_weather_data *)

WeatherReturned == wpc = "returned"

Frame == DataFrame(fetch)

\* the window the claim names, in slots: one hour a waypoint, three a circuit
ClaimedSpan == IF wmode = "rally" THEN SlotsPerHour ELSE 3 * SlotsPerHour

InClaimedWindow(t) == now <= t /\ t <= now + ClaimedSpan

\* C7: the filter keeps exactly the samples with now <= t <= now + 1h in
\* rally mode and now <= t <= now + 3h in circuit mode, bounds included, in
\* their original order.
C7_WindowExact ==
    (WeatherReturned /\ fetch.ok) =>
        /\ \A k \in 1..Len(df) : InClaimedWindow(df[k].time)
        /\ \A k \in 1..Len(Frame) :
              InClaimedWindow(Frame[k].time) => \E j \in 1..Len(df) : df[j] = Frame[k]
        /\ Len(df) = Cardinality({k \in 1..Len(Frame) : InClaimedWindow(Frame[k].time)})
        /\ \A j \in 1..(Len(df) - 1) : df[j].time < df[j + 1].time
        /\ (wmode = "circuit") => ret = [kind |-> "frame", df |-> df]

\* a sample exactly at the end of the window was kept and the next one dropped
C7_Witness ==
    /\ WeatherReturned
    /\ fetch.ok
    /\ Len(Frame) = 2
    /\ Frame[1].time = now + ClaimedSpan
    /\ Len(df) = 1
    /\ df[1] = Frame[1]

\* C9: over a non-empty window precip_max is the largest precipitation of the
\* window, and risk is WET exactly when it exceeds 0.2 mm; exactly 0.2 is DRY.
C9_RallyRisk ==
    (WeatherReturned /\ fetch.ok /\ wmode = "rally" /\ Len(df) > 0) =>
        /\ ret.kind = "summary"
        /\ ~ret.precip_max.nan
        /\ ret.precip_max.den = 1
        /\ \E k \in 1..Len(df) : df[k].precip = ret.precip_max.num
        /\ \A k \in 1..Len(df) : df[k].precip <= ret.precip_max.num
        /\ (ret.risk = "WET") <=> (ret.precip_max.num > 20)
        /\ (ret.risk = "DRY") <=> (ret.precip_max.num <= 20)

\* a window of two samples whose largest precipitation is exactly 0.2 mm
C9_Witness ==
    /\ WeatherReturned
    /\ fetch.ok
    /\ wmode = "rally"
    /\ Len(df) = 2
    /\ df[1].precip # df[2].precip
    /\ ret.precip_max.num = 20
    /\ ret.risk = "DRY"

-----------------------------------------------------------------------------
(* get_strategy and the display formats *)

\* elif row['precip'] < 0.5, in hundredths of a mm
IntersBelow == 50

\* round num / den to the nearest integer, ties to even
RoundHalfEven(num, den) ==
    LET q == num \div den
        r == num % den
    IN IF 2 * r < den THEN q
       ELSE IF 2 * r > den THEN q + 1
       ELSE IF q % 2 = 0 THEN q ELSE q + 1

\* f"{x:.1f}" of a float held in hundredths: tenths, or "nan"
Fmt1(x) == IF x.nan THEN [nan |-> TRUE, v |-> 0]
           ELSE [nan |-> FALSE, v |-> RoundHalfEven(x.num, x.den * 10)]

\* f"{x:.0f}" of a float held in tenths: units, or "nan"
Fmt0(x) == IF x.nan THEN [nan |-> TRUE, v |-> 0]
           ELSE [nan |-> FALSE, v |-> RoundHalfEven(x.num, x.den * 10)]

\* strftime("%H:%M") of a slot number
StrfTime(t) == <<(t \div SlotsPerHour) % 24, (t % SlotsPerHour) * (60 \div SlotsPerHour)>>

\* a plausible slip: 0.5 mm still counts as INTERS
TireCallInclusive(precip) ==
    IF precip = 0 THEN "SLICKS"
    ELSE IF precip <= IntersBelow THEN "INTERS"
    ELSE "WETS"

\* the if / elif / else of get_strategy
TireCall(precip) ==
    IF precip = 0 THEN "SLICKS"
    ELSE IF precip < IntersBelow THEN "INTERS"
    ELSE "WETS"

get_strategy(r) ==
    [Time |-> StrfTime(r.time),
     Rain |-> Fmt1(Num(r.precip)),
     Temp |-> Fmt1(Num(r.temp)),
     Wind |-> Fmt0(Num(r.wind)),
     TIRE_CALL |-> TireCall(r.precip)]

RowTemps == {-50, 1525}
RowWinds == {5, 105, 116}

Rows == [time : UNION {n..(n + MaxRowTime) : n \in Nows},
         temp : RowTemps,
         precip : 0..MaxPrecip,
         wind : RowWinds]

-----------------------------------------------------------------------------
(* Specification of get_strategy called on its own *)

InitStrategy ==
    /\ points = <<>>
    /\ step_km = DefaultStepKm
    /\ selected = <<>>
    /\ spc = "off"
    /\ fetch = [ok |-> FALSE, start |-> 0, samples |-> <<>>]
    /\ now = 0
    /\ wmode = "circuit"
    /\ df = <<>>
    /\ ret = None
    /\ wpc = "off"
    /\ row \in Rows
    /\ verdict = <<>>
    /\ gpc = "call"
    /\ pc = "off"
    /\ waypoints = <<>>
    /\ i = 0
    /\ results = <<>>
    /\ calls = <<>>
    /\ advice = "none"
    /\ data = None
    /\ strategy_df = <<>>
    /\ metrics = <<>>

CallStrategy ==
    /\ gpc = "call"
    /\ verdict' = <<get_strategy(row)>>
    /\ gpc' = "returned"
    /\ UNCHANGED row
    /\ UNCHANGED <<samplerVars, weatherVars, appVars>>

NextStrategy == CallStrategy

SpecStrategy == InitStrategy /\ [][NextStrategy]_vars

-----------------------------------------------------------------------------
(* Properties of get_strategy *)

\* C8: the tire tag is SLICKS at 0 mm, INTERS above 0 and below 0.5 mm, WETS
\* from 0.5 mm on, exactly one of the three, whatever the other columns hold.
C8_TireTag ==
    (gpc = "returned" /\ row.precip >= 0) =>
        LET tire == verdict[1].TIRE_CALL IN
        /\ tire \in {"SLICKS", "INTERS", "WETS"}
        /\ (tire = "SLICKS") <=> (row.precip = 0)
        /\ (tire = "INTERS") <=> (0 < row.precip /\ row.precip < 50)
        /\ (tire = "WETS") <=> (row.precip >= 50)

\* exactly 0.5 mm was called WETS
C8_Witness ==
    /\ gpc = "returned"
    /\ row.precip = 50
    /\ verdict[1].TIRE_CALL = "WETS"

-----------------------------------------------------------------------------
(* The Streamlit script: circuit scan and rally stage profiler *)

UploadedRoutes == SeqsUpTo(RoutePoints, MaxUploadPoints)

\* "if w:" on None or on the summary dict, which is never empty
Truthy(w) == w.kind # "None"

\* the dict appended to results for waypoint wp
ResultRow(wp, w) ==
    [Punt |-> wp.name,
     Status |-> w.risk,
     Regen |-> Fmt1(w.precip_max),
     Wind |-> Fmt0(w.wind),
     Temp |-> Fmt1(w.temp)]

\* a plausible slip: a row is added for every waypoint, fetched or not
AppendResultAlways(res, wp, w) ==
    IF Truthy(w) THEN Append(res, ResultRow(wp, w))
    ELSE Append(res, [Punt |-> wp.name, Status |-> "DRY",
                      Regen |-> Fmt1(NaN), Wind |-> Fmt0(NaN), Temp |-> Fmt1(NaN)])

\* "if w: results.append({...})"
AppendResult(res, wp, w) ==
    IF Truthy(w) THEN Append(res, ResultRow(wp, w)) ELSE res

\* len(df[df['Status'] == 'WET'])
NWet(res) == Cardinality({k \in 1..Len(res) : res[k].Status = "WET"})

\* after the loop: an empty results list makes a frame with no 'Status'
\* column and df['Status'] raises KeyError; else one of three advices
RallyFinish(res) ==
    IF Len(res) = 0 THEN [pc |-> "error", advice |-> "none"]
    ELSE IF NWet(res) = 0 THEN [pc |-> "rally_done", advice |-> "SLICKS"]
    ELSE IF NWet(res) = Len(res) THEN [pc |-> "rally_done", advice |-> "WETS"]
    ELSE [pc |-> "rally_done", advice |-> "CROSSOVER"]

\* the three st.metric values from curr = data.iloc[0]
Metrics(curr) == <<curr.precip, curr.wind \div 10, Fmt1(Num(curr.temp))>>

Idle ==
    /\ pc = "idle"
    /\ waypoints = <<>>
    /\ i = 0
    /\ results = <<>>
    /\ calls = <<>>
    /\ advice = "none"
    /\ data = None
    /\ strategy_df = <<>>
    /\ metrics = <<>>

Init ==
    /\ points = <<>>
    /\ step_km = DefaultStepKm
    /\ selected = <<>>
    /\ spc = "off"
    /\ fetch = [ok |-> FALSE, start |-> 0, samples |-> <<>>]
    /\ now = 0
    /\ wmode = "circuit"
    /\ df = <<>>
    /\ ret = None
    /\ wpc = "off"
    /\ row = [time |-> 0, temp |-> 0, precip |-> 0, wind |-> 0]
    /\ verdict = <<>>
    /\ gpc = "off"
    /\ Idle

\* the "Scan Atmosfeer" button in circuit mode
ScanAtmosfeer ==
    /\ pc = "idle"
    /\ \E f \in Fetches, n \in Nows :
       \E d \in {get_weather_data(f, n, "circuit")} :
          /\ data' = d
          /\ IF d.kind = "None"
             THEN /\ pc' = "circuit_done"
                  /\ UNCHANGED <<metrics, strategy_df>>
             ELSE IF Len(d.df) = 0
             THEN \* data.iloc[0] raises IndexError
                  /\ pc' = "error"
                  /\ UNCHANGED <<metrics, strategy_df>>
             ELSE /\ metrics' = Metrics(d.df[1])
                  /\ strategy_df' = [k \in 1..Len(d.df) |-> get_strategy(d.df[k])]
                  /\ pc' = "circuit_done"
    /\ UNCHANGED <<waypoints, i, results, calls, advice>>
    /\ UNCHANGED <<samplerVars, weatherVars, strategyVars>>

\* a GPX file is uploaded in rally mode: the route is sampled with the
\* default step and the loop starts; with no waypoint the loop body never
\* runs and the script goes straight to the table
UploadRoute ==
    /\ pc = "idle"
    /\ \E pts \in UploadedRoutes :
       \E wps \in {parse_gpx_route(pts, DefaultStepKm)} :
          /\ waypoints' = wps
          /\ results' = <<>>
          /\ calls' = <<>>
          /\ IF Len(wps) = 0
             THEN /\ pc' = RallyFinish(<<>>).pc
                  /\ advice' = RallyFinish(<<>>).advice
                  /\ i' = 0
             ELSE /\ pc' = "rally"
                  /\ advice' = advice
                  /\ i' = 1
    /\ UNCHANGED <<data, strategy_df, metrics>>
    /\ UNCHANGED <<samplerVars, weatherVars, strategyVars>>

\* one iteration of "for i, wp in enumerate(waypoints)"; the last one runs on
\* into the table and the advice
RallyStep ==
    /\ pc = "rally"
    /\ i <= Len(waypoints)
    /\ \E f \in Fetches, n \in Nows :
       \E w \in {get_weather_data(f, n, "rally")} :
       \E res \in {AppendResult(results, waypoints[i], w)} :
          /\ results' = res
          /\ calls' = Append(calls, [w |-> w,
                                     nodata |-> f.ok /\ Len(Window(f, n, "rally")) = 0])
          /\ i' = i + 1
          /\ IF i = Len(waypoints)
             THEN /\ pc' = RallyFinish(res).pc
                  /\ advice' = RallyFinish(res).advice
             ELSE UNCHANGED <<pc, advice>>
    /\ UNCHANGED <<waypoints, data, strategy_df, metrics>>
    /\ UNCHANGED <<samplerVars, weatherVars, strategyVars>>

\* the next interaction reruns the script from the top
Rerun ==
    /\ pc \in {"circuit_done", "rally_done", "error"}
    /\ pc' = "idle"
    /\ waypoints' = <<>>
    /\ i' = 0
    /\ results' = <<>>
    /\ calls' = <<>>
    /\ advice' = "none"
    /\ data' = None
    /\ strategy_df' = <<>>
    /\ metrics' = <<>>
    /\ UNCHANGED <<samplerVars, weatherVars, strategyVars>>

Next == ScanAtmosfeer \/ UploadRoute \/ RallyStep \/ Rerun

Spec == Init /\ [][Next]_vars

-----------------------------------------------------------------------------
(* Properties of the script *)

\* the waypoints whose fetch came back with something
Fetched == {k \in 1..Len(calls) : calls[k].w.kind # "None"}

\* C5: the rally loop visits every waypoint whatever fetches fail, and the
\* results hold one row for each waypoint whose fetch succeeded, none for a
\* failed one, in route order.
C5_IsolatedInOrder ==
    /\ (pc = "rally") => (i <= Len(waypoints) /\ Len(calls) = i - 1)
    /\ (pc \in {"rally_done", "error"}) => Len(calls) = Len(waypoints)
    /\ Len(results) = Cardinality(Fetched)
    /\ \A k \in Fetched :
          /\ results[Rank(Fetched, k)].Punt = waypoints[k].name
          /\ results[Rank(Fetched, k)].Status = calls[k].w.risk

\* three waypoints, the middle fetch failed, the other two are in the table
C5_Witness ==
    /\ pc = "rally_done"
    /\ Len(waypoints) = 3
    /\ calls[2].w.kind = "None"
    /\ Len(results) = 2
    /\ results[1].Punt = START
    /\ results[2].Punt = FINISH

\* C3: a rally call over an empty window returns no summary, and the loop
\* adds no row for that waypoint.
C3_EmptyWindowNoSummary ==
    /\ \A k \in 1..Len(calls) : calls[k].nodata => calls[k].w.kind # "summary"
    /\ Len(results) <= Cardinality({k \in 1..Len(calls) :
                                       calls[k].w.kind # "None" /\ ~calls[k].nodata})

\* C6: a circuit scan whose window is empty ends without an error.
C6_EmptyCircuitNoError ==
    (data.kind = "frame" /\ Len(data.df) = 0) => pc # "error"

====
